---------------------------- MODULE Spec2Model ----------------------------
(***************************************************************************)
(* The game coordination engine of the Set matching game: the shared       *)
(* GameState of GameStateManager (game-state-manager.ts), its operations,  *)
(* the deferred setTimeout callbacks they schedule, and the deck and set   *)
(* validator of ThemeSystem (theme-system.ts).                             *)
(*                                                                         *)
(* Time is counted in whole seconds: Date.now() is `now`, every duration   *)
(* of the code (timerSettings in seconds, the 1000 ms delays) is a whole   *)
(* number of seconds, and every event happens on a second boundary.        *)
(***************************************************************************)
EXTENDS Integers, Sequences, FiniteSets, Bags, TLC

VARIABLES
    state,          \* this.state : GameState
    timers,         \* bag of pending setTimeout callbacks [kind, due]
    now,            \* Date.now(), in seconds
    buttonStates,   \* SetCardAction.buttonStates: the action ids it maps to true
    drawn,          \* the ids of the cards that have been in activeCards since the game started
    ret,            \* what buzzIn returned, when the last step was a buzzIn call ("none" otherwise)
    io,             \* the saveState / notifyWatchers calls made by the last step, in order
    freedPosition,  \* the board position freed by an unregisterInstance made while exactly 12 were
                    \* registered, until the next instance registers (Null otherwise)
    calls,          \* how many calls of the budgeted operations have been made, by operation
    disk,           \* game-state.json: <<>> while there is no file, else <<the snapshot last written>>
    writable,       \* whether fs.writeFileSync succeeds
    hand,           \* the three cards handed to ThemeSystem.isValidSet (<<>> before any are)
    verdict         \* what isValidSet returned for them ("none" before it is called)

vars == <<state, timers, now, buttonStates, drawn, ret, io, freedPosition, calls, disk, writable,
          hand, verdict>>

---------------------------------------------------------------------------
(* Bounds of the model *)

NumInstances == 13      \* instance ids are 1..NumInstances
MaxTime == 9            \* the clock stops advancing at MaxTime
MaxBuzz == 1            \* rounds explored: buzzIn calls that are accepted
MaxUnregister == 1      \* unregisterInstance calls explored
MaxNewGame == 1         \* newGame calls explored
MaxSettings == 1        \* updateTimerSettings calls explored
MaxPosition == 2        \* selectPlayerForSwap and assignPlayerPosition calls explored
MaxChurn == 2           \* SpecRegistry: unregisterInstance calls explored, of any instance
MaxRounds == 2          \* rounds played in a game without interruptions
MaxHeld == 2            \* buttons held down at the same time
MaxIdlePress == 1       \* presses that make no call of the engine
MaxLiveTime == 18       \* SpecLive: the clock stops advancing at MaxLiveTime
MaxMoves == 3           \* SpecPositions: selectPlayerForSwap and assignPlayerPosition calls explored
MaxFaults == 2          \* SpecStore: changes of the disk between writable and not writable

(* Program constants *)

Null == -1                  \* null of buzzedInPlayer, buzzPressTime, selectionTimer, selectedPlayerForSwap
RequiredInstances == 12     \* registeredInstances.length === 12
BoardSize == 12             \* board positions 0..11, activeCards = deck.slice(0, 12)
DeckSize == 81              \* 3^4 cards
DefaultBuzzHoldTimeout == 3
DefaultSelectionTimeout == 4
DefaultCountdownDuration == 5
BuzzedDelay == 1            \* setTimeout(..., 1000) of startSelectionTimer
ReturnDelay == 1            \* setTimeout(() => this.returnToLive(), 1000)
DrawCount == 3              \* remainingDeck.slice(0, 3)

Instances == 1..NumInstances
Budgeted == {"unregisterInstance", "newGame", "updateTimerSettings", "position", "buzzIn",
             "idlePress", "diskFault"}
Positions == 0..(BoardSize - 1)
PlayerIds == 1..4
Phases == {"setup", "playerSelection", "countdown", "live", "buzzHeld",
           "buzzed", "selecting", "validating", "cooldown"}

---------------------------------------------------------------------------
(* ThemeSystem *)

\* the counters <<p0, p1, p2, p3>> of the four nested loops after one more pass of the
\* innermost body: p3++, and a loop that has reached 3 ends, its counter starts again at
\* 0 and the loop around it advances
Advance(p) ==
    IF p[4] < 2 THEN <<p[1], p[2], p[3], p[4] + 1>>
    ELSE IF p[3] < 2 THEN <<p[1], p[2], p[3] + 1, 0>>
    ELSE IF p[2] < 2 THEN <<p[1], p[2] + 1, 0, 0>>
    ELSE <<p[1] + 1, 0, 0, 0>>

\* a variant of Generate that gives every card the same id: id without ++
RECURSIVE Generate_SameId(_, _, _)
Generate_SameId(cards, id, p) ==
    IF p[1] >= 3 THEN cards
    ELSE Generate_SameId(Append(cards, [id |-> id, properties |-> p]), id, Advance(p))

\* the passes of the loops: cards.push({ id: id++, properties: [p0, p1, p2, p3] })
RECURSIVE Generate(_, _, _)
Generate(cards, id, p) ==
    IF p[1] >= 3 THEN cards
    ELSE Generate(Append(cards, [id |-> id, properties |-> p]), id + 1, Advance(p))

\* generateDeck: four nested loops p0..p3 over 0..2, id++ for each card
generateDeck == Generate(<<>>, 0, <<0, 0, 0, 0>>)

\* the card with a given id
CardOf(id) == generateDeck[id + 1]

\* isValidSet: at each of the 4 properties all same or all different
\* variants of isValidSet: one that compares only neighbouring cards for allDifferent, and
\* one whose loop stops one property short
isValidSet_NeighboursOnly(card1, card2, card3) ==
    \A propIndex \in 1..4 :
        LET p1 == card1.properties[propIndex]
            p2 == card2.properties[propIndex]
            p3 == card3.properties[propIndex]
            allSame == (p1 = p2 /\ p2 = p3)
            allDifferent == (p1 # p2 /\ p2 # p3)
        IN allSame \/ allDifferent

isValidSet_ThreeProperties(card1, card2, card3) ==
    \A propIndex \in 1..3 :
        LET p1 == card1.properties[propIndex]
            p2 == card2.properties[propIndex]
            p3 == card3.properties[propIndex]
            allSame == (p1 = p2 /\ p2 = p3)
            allDifferent == (p1 # p2 /\ p2 # p3 /\ p1 # p3)
        IN allSame \/ allDifferent

isValidSet(card1, card2, card3) ==
    \A propIndex \in 1..4 :
        LET p1 == card1.properties[propIndex]
            p2 == card2.properties[propIndex]
            p3 == card3.properties[propIndex]
            allSame == (p1 = p2 /\ p2 = p3)
            allDifferent == (p1 # p2 /\ p2 # p3 /\ p1 # p3)
        IN allSame \/ allDifferent

\* shuffle returns a permutation of its input chosen by Math.random(); the
\* model draws it from the permutations i -> (stride * i + offset) mod 81
ShuffleParams == { <<1, 0>>, <<2, 1>> }

Shuffled(array, stride, offset) ==
    [i \in 1..Len(array) |-> array[((stride * (i - 1) + offset) % Len(array)) + 1]]

\* the decks (sequences of card ids) shuffle(generateDeck()) can return in the model
Decks == { [i \in 1..DeckSize |-> Shuffled(generateDeck, p[1], p[2])[i].id] : p \in ShuffleParams }

---------------------------------------------------------------------------
(* Helpers on sequences and maps *)

Range(s) == { s[i] : i \in DOMAIN s }

Min(a, b) == IF a < b THEN a ELSE b

\* Array.prototype.slice(0, n)
Slice(s, n) == SubSeq(s, 1, Min(Len(s), n))

\* Array.prototype.indexOf, 1-based, 0 when absent
IndexOf(s, x) ==
    IF x \in Range(s) THEN CHOOSE i \in DOMAIN s : s[i] = x /\ \A j \in 1..(i - 1) : s[j] # x
    ELSE 0

\* a variant of RemoveAt that drops the last element: pop() for splice(index, 1)
RemoveAt_Pop(s, i) == SubSeq(s, 1, Len(s) - 1)

\* Array.prototype.splice(index, 1)
RemoveAt(s, i) == SubSeq(s, 1, i - 1) \o SubSeq(s, i + 1, Len(s))

---------------------------------------------------------------------------
(* GameStateManager: construction *)

DefaultTimerSettings ==
    [buzzHoldTimeout |-> DefaultBuzzHoldTimeout,
     selectionTimeout |-> DefaultSelectionTimeout,
     countdownDuration |-> DefaultCountdownDuration]

DefaultPlayerPositions == (1 :> 0) @@ (2 :> 3) @@ (3 :> 8) @@ (4 :> 11)

NewPlayer(i) == [id |-> i, successfulSets |-> 0, unsuccessfulSets |-> 0]

\* the state object built by createNewState and by newGame
FreshState(playerCount, d) ==
    [themeId |-> "classic",
     playerCount |-> playerCount,
     players |-> [i \in 1..playerCount |-> NewPlayer(i)],
     deck |-> d,
     activeCards |-> Slice(d, BoardSize),
     registeredInstances |-> <<>>,
     instanceCardMap |-> <<>>,
     playerPositions |-> DefaultPlayerPositions,
     selectedPlayerForSwap |-> Null,
     selectedCards |-> <<>>,
     gamePhase |-> "setup",
     buzzedInPlayer |-> Null,
     buzzPressTime |-> Null,
     selectionTimer |-> Null,
     timerSettings |-> DefaultTimerSettings]

createNewState(d) == FreshState(1, d)

\* a variant of SaveAndNotify in which a failed write is thrown on to the caller
SaveAndNotify_Raises == IF writable THEN <<"save", "notify">> ELSE <<"save">>

\* a variant of SaveAndNotify that notifies the watchers before it persists
SaveAndNotify_NotifyFirst == <<"notify", "save">>

\* saveState() then notifyWatchers(), the tail of every mutating operation
SaveAndNotify == <<"save", "notify">>

Init ==
    /\ state \in { createNewState(d) : d \in Decks }
    /\ timers = EmptyBag
    /\ now = 1
    /\ ret = "none"
    /\ io = <<>>
    /\ buttonStates = {}
    /\ drawn = Range(state.activeCards)
    /\ freedPosition = Null
    /\ calls = [k \in Budgeted |-> 0]
    /\ disk = <<>>
    /\ writable = TRUE
    /\ hand = <<>>
    /\ verdict = "none"

---------------------------------------------------------------------------
(* Effects of an operation outside GameState *)

\* the operation returned before it changed anything
Rejected ==
    /\ io' = <<>>
    /\ UNCHANGED <<state, timers>>

\* setTimeout(callback, delay seconds)
Schedule(kind, delay) == timers (+) SetToBag({[kind |-> kind, due |-> now + delay]})

---------------------------------------------------------------------------
(* Instance registry *)

\* variants of AssignedIndex: the last free position instead of the first, and the number
\* of positions handed out so far
AssignedIndex_Highest(map) ==
    LET free == { i \in Positions : \A c \in DOMAIN map : map[c] # i }
    IN IF free = {} THEN -1 ELSE CHOOSE i \in free : \A j \in free : i >= j

AssignedIndex_ByCount(map) ==
    IF Cardinality(DOMAIN map) < BoardSize THEN Cardinality(DOMAIN map) ELSE -1

\* the for loop of registerInstance: the first i in 0..11 that no context maps to, -1 if none
AssignedIndex(map) ==
    LET free == { i \in Positions : \A c \in DOMAIN map : map[c] # i }
    IN IF free = {} THEN -1 ELSE CHOOSE i \in free : \A j \in free : i <= j

\* the check made before the push where the code makes it after: a variant of AllRegistered
AllRegistered_BeforePush(registered) == Len(registered) - 1 = RequiredInstances

\* this.state.registeredInstances.length === 12, after the push
AllRegistered(registered) == Len(registered) = RequiredInstances

registerInstance(context) ==
    /\ ret' = "none"
    /\ IF context \notin Range(state.registeredInstances)
       THEN LET registered == Append(state.registeredInstances, context)
                assignedIndex == AssignedIndex(state.instanceCardMap)
                map == IF assignedIndex >= 0
                       THEN (context :> assignedIndex) @@ state.instanceCardMap
                       ELSE state.instanceCardMap
                phase == IF AllRegistered(registered) /\ state.gamePhase = "setup"
                         THEN "playerSelection"
                         ELSE state.gamePhase
            IN /\ state' = [state EXCEPT !.registeredInstances = registered,
                                         !.instanceCardMap = map,
                                         !.gamePhase = phase]
               /\ io' = SaveAndNotify
               /\ UNCHANGED timers
       ELSE Rejected

\* a variant of unregisterInstance that resets the phase when 12 or fewer are left
unregisterInstance_ResetsAtTwelve(context) ==
    /\ ret' = "none"
    /\ LET index == IndexOf(state.registeredInstances, context)
       IN IF index >= 1
          THEN LET registered == RemoveAt(state.registeredInstances, index)
                   map == [c \in DOMAIN state.instanceCardMap \ {context} |-> state.instanceCardMap[c]]
                   phase == IF Len(registered) <= RequiredInstances THEN "setup" ELSE state.gamePhase
               IN /\ state' = [state EXCEPT !.registeredInstances = registered,
                                            !.instanceCardMap = map,
                                            !.gamePhase = phase]
                  /\ io' = SaveAndNotify
                  /\ UNCHANGED timers
          ELSE Rejected

\* a variant of unregisterInstance that also starts the scores again when it resets the
\* phase to setup
unregisterInstance_ResetsScores(context) ==
    /\ ret' = "none"
    /\ LET index == IndexOf(state.registeredInstances, context)
       IN IF index >= 1
          THEN LET registered == RemoveAt(state.registeredInstances, index)
                   map == [c \in DOMAIN state.instanceCardMap \ {context} |-> state.instanceCardMap[c]]
                   reset == Len(registered) < RequiredInstances
               IN /\ state' = [state EXCEPT
                        !.registeredInstances = registered,
                        !.instanceCardMap = map,
                        !.gamePhase = IF reset THEN "setup" ELSE state.gamePhase,
                        !.players = IF reset
                                    THEN [i \in DOMAIN state.players |->
                                            [state.players[i] EXCEPT !.successfulSets = 0,
                                                                     !.unsuccessfulSets = 0]]
                                    ELSE state.players]
                  /\ io' = SaveAndNotify
                  /\ UNCHANGED timers
          ELSE Rejected

unregisterInstance(context) ==
    /\ ret' = "none"
    /\ LET index == IndexOf(state.registeredInstances, context)
       IN IF index >= 1
          THEN LET registered == RemoveAt(state.registeredInstances, index)
                   map == [c \in DOMAIN state.instanceCardMap \ {context} |-> state.instanceCardMap[c]]
                   phase == IF Len(registered) < RequiredInstances THEN "setup" ELSE state.gamePhase
               IN /\ state' = [state EXCEPT !.registeredInstances = registered,
                                            !.instanceCardMap = map,
                                            !.gamePhase = phase]
                  /\ io' = SaveAndNotify
                  /\ UNCHANGED timers
          ELSE Rejected

getCardIndexForContext(context) ==
    IF context \in DOMAIN state.instanceCardMap THEN state.instanceCardMap[context] ELSE 0

getInstanceCount == Len(state.registeredInstances)

---------------------------------------------------------------------------
(* Players and positions *)

\* players.find(p => p.id === playerId): its index in players, 0 if there is none
FindPlayer(players, playerId) ==
    IF \E i \in DOMAIN players : players[i].id = playerId
    THEN CHOOSE i \in DOMAIN players : players[i].id = playerId
    ELSE 0

getPlayer(playerId) == FindPlayer(state.players, playerId)

\* a variant of getPlayerAtPosition that looks among the players of the game only
getPlayerAtPosition_PlayersOfTheGame(cardIndex) ==
    LET at == { p \in DOMAIN state.playerPositions :
                    /\ p <= state.playerCount
                    /\ state.playerPositions[p] = cardIndex }
    IN IF at = {} THEN Null ELSE CHOOSE p \in at : \A q \in at : p <= q

\* Object.entries(playerPositions).find(([, pos]) => pos === cardIndex): the first key, in
\* ascending key order, null if there is none
getPlayerAtPosition(cardIndex) ==
    LET at == { p \in DOMAIN state.playerPositions : state.playerPositions[p] = cardIndex }
    IN IF at = {} THEN Null ELSE CHOOSE p \in at : \A q \in at : p <= q

isPlayerPosition(cardIndex) ==
    \E p \in DOMAIN state.playerPositions : state.playerPositions[p] = cardIndex

\* a variant of IncSuccessful that falls through to the unsuccessful counter as well
IncSuccessful_FallsThrough(players, i) ==
    IF i = 0 THEN players
    ELSE [players EXCEPT ![i].successfulSets = players[i].successfulSets + 1,
                         ![i].unsuccessfulSets = players[i].unsuccessfulSets + 1]

\* player.successfulSets++ / player.unsuccessfulSets++ when the player was found
IncSuccessful(players, i) ==
    IF i = 0 THEN players
    ELSE [players EXCEPT ![i].successfulSets = players[i].successfulSets + 1]

IncUnsuccessful(players, i) ==
    IF i = 0 THEN players
    ELSE [players EXCEPT ![i].unsuccessfulSets = players[i].unsuccessfulSets + 1]

\* this.state.buzzedInPlayer || 1
AttributedPlayer(s) == IF s.buzzedInPlayer = Null \/ s.buzzedInPlayer = 0 THEN 1 ELSE s.buzzedInPlayer

\* a variant of selectPlayerForSwap that exchanges without keeping the first position
selectPlayerForSwap_Overwrites(playerId) ==
    /\ ret' = "none"
    /\ IF state.gamePhase # "playerSelection" THEN Rejected
       ELSE /\ IF state.selectedPlayerForSwap = Null
               THEN state' = [state EXCEPT !.selectedPlayerForSwap = playerId]
               ELSE IF state.selectedPlayerForSwap = playerId
               THEN state' = [state EXCEPT !.selectedPlayerForSwap = Null]
               ELSE LET pos2 == state.playerPositions[playerId]
                    IN state' = [state EXCEPT
                            !.playerPositions = [state.playerPositions EXCEPT
                                                    ![state.selectedPlayerForSwap] = pos2],
                            !.selectedPlayerForSwap = Null]
            /\ io' = SaveAndNotify
            /\ UNCHANGED timers

selectPlayerForSwap(playerId) ==
    /\ ret' = "none"
    /\ IF state.gamePhase # "playerSelection" THEN Rejected
       ELSE /\ IF state.selectedPlayerForSwap = Null
               THEN state' = [state EXCEPT !.selectedPlayerForSwap = playerId]
               ELSE IF state.selectedPlayerForSwap = playerId
               THEN state' = [state EXCEPT !.selectedPlayerForSwap = Null]
               ELSE LET pos1 == state.playerPositions[state.selectedPlayerForSwap]
                        pos2 == state.playerPositions[playerId]
                    IN state' = [state EXCEPT
                            !.playerPositions = [state.playerPositions EXCEPT
                                                    ![state.selectedPlayerForSwap] = pos2,
                                                    ![playerId] = pos1],
                            !.selectedPlayerForSwap = Null]
            /\ io' = SaveAndNotify
            /\ UNCHANGED timers

\* a variant of assignPlayerPosition that leaves the occupant of the cell where it is
assignPlayerPosition_KeepsOccupant(cardIndex) ==
    /\ ret' = "none"
    /\ IF state.gamePhase # "playerSelection" \/ state.selectedPlayerForSwap = Null THEN Rejected
       ELSE /\ state' = [state EXCEPT
                            !.playerPositions = [state.playerPositions EXCEPT
                                                    ![state.selectedPlayerForSwap] = cardIndex],
                            !.selectedPlayerForSwap = Null]
            /\ io' = SaveAndNotify
            /\ UNCHANGED timers

assignPlayerPosition(cardIndex) ==
    /\ ret' = "none"
    /\ IF state.gamePhase # "playerSelection" \/ state.selectedPlayerForSwap = Null THEN Rejected
       ELSE LET existingPlayerId == getPlayerAtPosition(cardIndex)
                selected == state.selectedPlayerForSwap
                selectedPos == state.playerPositions[selected]
                swapped == IF existingPlayerId # Null
                           THEN [state.playerPositions EXCEPT ![existingPlayerId] = selectedPos]
                           ELSE state.playerPositions
            IN /\ state' = [state EXCEPT
                                !.playerPositions = [swapped EXCEPT ![selected] = cardIndex],
                                !.selectedPlayerForSwap = Null]
               /\ io' = SaveAndNotify
               /\ UNCHANGED timers

---------------------------------------------------------------------------
(* Phase machine *)

startCountdown ==
    /\ ret' = "none"
    /\ IF state.gamePhase # "playerSelection" THEN Rejected
       ELSE /\ state' = [state EXCEPT !.gamePhase = "countdown", !.selectionTimer = now]
            /\ timers' = Schedule("countdown", state.timerSettings.countdownDuration)
            /\ io' = SaveAndNotify

\* variants of buzzIn: one that accepts the press in every phase, and one that persists and
\* notifies before it rejects
buzzIn_Unguarded(playerId) ==
    /\ state' = [state EXCEPT !.gamePhase = "buzzHeld",
                              !.buzzedInPlayer = playerId,
                              !.buzzPressTime = now]
    /\ ret' = "true"
    /\ io' = SaveAndNotify
    /\ UNCHANGED timers

buzzIn_RejectSaves(playerId) ==
    IF state.gamePhase # "live"
    THEN /\ ret' = "false"
         /\ io' = SaveAndNotify
         /\ UNCHANGED <<state, timers>>
    ELSE /\ state' = [state EXCEPT !.gamePhase = "buzzHeld",
                                   !.buzzedInPlayer = playerId,
                                   !.buzzPressTime = now]
         /\ ret' = "true"
         /\ io' = SaveAndNotify
         /\ UNCHANGED timers

buzzIn(playerId) ==
    IF state.gamePhase # "live"
    THEN /\ ret' = "false"
         /\ Rejected
    ELSE /\ state' = [state EXCEPT !.gamePhase = "buzzHeld",
                                   !.buzzedInPlayer = playerId,
                                   !.buzzPressTime = now]
         /\ ret' = "true"
         /\ io' = SaveAndNotify
         /\ UNCHANGED timers

isBuzzHoldTimedOut ==
    IF state.buzzPressTime = Null \/ state.buzzPressTime = 0 THEN FALSE
    ELSE (now - state.buzzPressTime) > state.timerSettings.buzzHoldTimeout

handleBuzzHoldTimeout ==
    /\ ret' = "none"
    /\ IF state.gamePhase # "buzzHeld" THEN Rejected
       ELSE /\ state' = [state EXCEPT
                            !.players = IncUnsuccessful(state.players,
                                                        FindPlayer(state.players, state.buzzedInPlayer)),
                            !.gamePhase = "live",
                            !.buzzedInPlayer = Null,
                            !.buzzPressTime = Null]
            /\ io' = SaveAndNotify
            /\ UNCHANGED timers

startSelectionTimer ==
    /\ ret' = "none"
    /\ IF state.gamePhase = "buzzHeld"
       THEN /\ state' = [state EXCEPT !.gamePhase = "buzzed", !.buzzPressTime = Null]
            /\ timers' = Schedule("buzzed", BuzzedDelay)
            /\ io' = SaveAndNotify
       ELSE Rejected

isSelectionTimedOut ==
    IF state.selectionTimer = Null THEN FALSE
    ELSE (now - state.selectionTimer) > state.timerSettings.selectionTimeout

updateTimerSettings(settings) ==
    /\ ret' = "none"
    /\ state' = [state EXCEPT !.timerSettings =
                    [k \in DOMAIN state.timerSettings |->
                        IF k \in DOMAIN settings THEN settings[k] ELSE state.timerSettings[k]]]
    /\ io' = SaveAndNotify
    /\ UNCHANGED timers

---------------------------------------------------------------------------
(* Card selection and validation *)

\* a variant of replaceCards that draws remainingDeck.slice(1, 3)
replaceCards_SliceFromOne(s, cardIds) ==
    LET onBoard(c) == c \in Range(s.activeCards)
        notRemoved(c) == c \notin Range(cardIds)
        notOnBoard(c) == ~onBoard(c)
        newActiveCards == SelectSeq(s.activeCards, notRemoved)
        remainingDeck == SelectSeq(s.deck, notOnBoard)
        newCards == Tail(Slice(remainingDeck, DrawCount))
    IN newActiveCards \o newCards

\* a variant of replaceCards that draws from the whole deck
replaceCards_DrawFromDeck(s, cardIds) ==
    LET notRemoved(c) == c \notin Range(cardIds)
        newActiveCards == SelectSeq(s.activeCards, notRemoved)
        newCards == Slice(s.deck, DrawCount)
    IN newActiveCards \o newCards

\* replaceCards: activeCards without cardIds, followed by the first 3 deck cards that
\* are not in activeCards (as it was before the removal)
replaceCards(s, cardIds) ==
    LET onBoard(c) == c \in Range(s.activeCards)
        notRemoved(c) == c \notin Range(cardIds)
        notOnBoard(c) == ~onBoard(c)
        newActiveCards == SelectSeq(s.activeCards, notRemoved)
        remainingDeck == SelectSeq(s.deck, notOnBoard)
        newCards == Slice(remainingDeck, DrawCount)
    IN newActiveCards \o newCards

\* a variant of validateSet that scores the triple and leaves the phase as it is
validateSet_KeepsPhase(s) ==
    LET cards == [i \in 1..3 |-> CardOf(s.selectedCards[i])]
        isValid == isValidSet(cards[1], cards[2], cards[3])
        player == FindPlayer(s.players, AttributedPlayer(s))
    IN IF player # 0 /\ isValid
       THEN [s EXCEPT !.players = IncSuccessful(s.players, player),
                      !.activeCards = replaceCards(s, s.selectedCards)]
       ELSE [s EXCEPT !.players = IncUnsuccessful(s.players, player)]

\* a variant of validateSet that replaces the selected cards whether or not they match
validateSet_AlwaysReplaces(s) ==
    LET cards == [i \in 1..3 |-> CardOf(s.selectedCards[i])]
        isValid == isValidSet(cards[1], cards[2], cards[3])
        player == FindPlayer(s.players, AttributedPlayer(s))
    IN [s EXCEPT !.gamePhase = "validating",
                 !.players = IF isValid THEN IncSuccessful(s.players, player)
                             ELSE IncUnsuccessful(s.players, player),
                 !.activeCards = IF player # 0 THEN replaceCards(s, s.selectedCards)
                                 ELSE s.activeCards]

\* the state validateSet leaves: called with 3 selected cards
validateSet(s) ==
    LET cards == [i \in 1..3 |-> CardOf(s.selectedCards[i])]
        isValid == isValidSet(cards[1], cards[2], cards[3])
        playerId == AttributedPlayer(s)
        player == FindPlayer(s.players, playerId)
    IN IF player # 0 /\ isValid
       THEN [s EXCEPT !.gamePhase = "validating",
                      !.players = IncSuccessful(s.players, player),
                      !.activeCards = replaceCards(s, s.selectedCards)]
       ELSE [s EXCEPT !.gamePhase = "validating",
                      !.players = IncUnsuccessful(s.players, player)]

selectCard(cardIndex) ==
    /\ ret' = "none"
    /\ IF state.gamePhase # "selecting" THEN Rejected
       ELSE IF cardIndex < 0 \/ cardIndex >= Len(state.activeCards) THEN Rejected
       ELSE LET cardId == state.activeCards[cardIndex + 1]
                selectedIndex == IndexOf(state.selectedCards, cardId)
                pushed == [state EXCEPT !.selectedCards = Append(state.selectedCards, cardId)]
            IN IF selectedIndex >= 1
               THEN /\ state' = [state EXCEPT !.selectedCards = RemoveAt(state.selectedCards, selectedIndex)]
                    /\ io' = SaveAndNotify
                    /\ UNCHANGED timers
               ELSE IF Len(state.selectedCards) < 3
               THEN IF Len(pushed.selectedCards) = 3
                    THEN /\ state' = validateSet(pushed)
                         /\ timers' = Schedule("returnToLive", ReturnDelay)
                         /\ io' = SaveAndNotify \o SaveAndNotify
                    ELSE /\ state' = pushed
                         /\ io' = SaveAndNotify
                         /\ UNCHANGED timers
               ELSE /\ io' = SaveAndNotify
                    /\ UNCHANGED <<state, timers>>

\* a variant of handleTimeout that schedules no return to live
handleTimeout_NoReturn ==
    /\ ret' = "none"
    /\ IF state.gamePhase # "selecting" THEN Rejected
       ELSE /\ state' = [state EXCEPT
                            !.players = IncUnsuccessful(state.players,
                                                        FindPlayer(state.players, AttributedPlayer(state))),
                            !.gamePhase = "cooldown"]
            /\ io' = SaveAndNotify
            /\ UNCHANGED timers

handleTimeout ==
    /\ ret' = "none"
    /\ IF state.gamePhase # "selecting" THEN Rejected
       ELSE /\ state' = [state EXCEPT
                            !.players = IncUnsuccessful(state.players,
                                                        FindPlayer(state.players, AttributedPlayer(state))),
                            !.gamePhase = "cooldown"]
            /\ timers' = Schedule("returnToLive", ReturnDelay)
            /\ io' = SaveAndNotify

\* the state returnToLive leaves
returnToLive(s) ==
    [s EXCEPT !.gamePhase = "live",
              !.buzzedInPlayer = Null,
              !.selectionTimer = Null,
              !.selectedCards = <<>>]

\* a variant of newGame that keeps the registry of instances
newGame_KeepsRegistry(playerCount, d) ==
    /\ ret' = "none"
    /\ state' = [FreshState(playerCount, d) EXCEPT
                    !.registeredInstances = state.registeredInstances,
                    !.instanceCardMap = state.instanceCardMap]
    /\ io' = SaveAndNotify
    /\ UNCHANGED timers

newGame(playerCount, d) ==
    /\ ret' = "none"
    /\ state' = FreshState(playerCount, d)
    /\ io' = SaveAndNotify
    /\ UNCHANGED timers

---------------------------------------------------------------------------
(* Deferred callbacks: a pending timer fires once its due time has come *)

Due(t) == BagIn(t, timers) /\ t.due <= now

Fired(t) == timers (-) SetToBag({t})

\* the callback of startCountdown's setTimeout
countdownCallback(t) ==
    /\ t.kind = "countdown"
    /\ timers' = Fired(t)
    /\ ret' = "none"
    /\ IF state.gamePhase = "countdown"
       THEN /\ state' = [state EXCEPT !.gamePhase = "live", !.selectionTimer = Null]
            /\ io' = SaveAndNotify
       ELSE /\ io' = <<>>
            /\ UNCHANGED state

\* a variant of buzzedCallback that does not look at the phase again
buzzedCallback_NoRecheck(t) ==
    /\ t.kind = "buzzed"
    /\ timers' = Fired(t)
    /\ ret' = "none"
    /\ state' = [state EXCEPT !.gamePhase = "selecting", !.selectionTimer = now]
    /\ io' = SaveAndNotify

\* the callback of startSelectionTimer's setTimeout
buzzedCallback(t) ==
    /\ t.kind = "buzzed"
    /\ timers' = Fired(t)
    /\ ret' = "none"
    /\ IF state.gamePhase = "buzzed"
       THEN /\ state' = [state EXCEPT !.gamePhase = "selecting", !.selectionTimer = now]
            /\ io' = SaveAndNotify
       ELSE /\ io' = <<>>
            /\ UNCHANGED state

\* the callback () => this.returnToLive() of validateSet and handleTimeout
returnToLiveCallback(t) ==
    /\ t.kind = "returnToLive"
    /\ timers' = Fired(t)
    /\ ret' = "none"
    /\ state' = returnToLive(state)
    /\ io' = SaveAndNotify

---------------------------------------------------------------------------
(* The engine driven through its inbound action surface *)

\* inputs explored
PlayerCounts == {2}
BuzzPlayers == {1, 2}
CardCells == {1, 4, 5, 7}
SwapPlayers == {1, 2}
AssignCells == {1}
UnregisterIds == {1, NumInstances}
SettingsInputs == { [countdownDuration |-> 1],
                    [buzzHoldTimeout |-> 1, selectionTimeout |-> 2] }

Registered == Range(state.registeredInstances)

\* Instance ids are opaque and an unregistered id leaves no trace in the state, so the
\* unregistered ids are interchangeable: the next new instance is the least of them.
NextInstance == CHOOSE c \in Instances \ Registered : \A d \in Instances \ Registered : c <= d

\* Nothing in the state refers to the clock while no timer is pending and no timestamp is
\* stored, and the origin of Date.now() is arbitrary: the clock is then set back to the
\* origin, so that every measured interval starts from the same reading.
Timed(s, ts) == ts # EmptyBag \/ s.buzzPressTime # Null \/ s.selectionTimer # Null

Clock == now' = IF Timed(state', timers') THEN now ELSE 1

\* saveState: the file after JSON.stringify(this.state) was written to it; a write that
\* throws is caught and logged, and leaves the file as it was
saveState(file, s) == IF writable THEN <<s>> ELSE file

\* every saveState call of an operation is made after its last change of this.state; no
\* operation of the game touches the cards held out to the set validator
Persist ==
    /\ disk' = IF "save" \in Range(io') THEN saveState(disk, state') ELSE disk
    /\ UNCHANGED <<writable, hand, verdict>>

\* one more call of a budgeted operation
Counted(op) == calls' = [calls EXCEPT ![op] = calls[op] + 1]

\* The runs explored disturb the game in one way: by unregistering, by starting a new
\* game, by changing the timer settings, by moving players, or by pressing buttons that
\* have no function in the phase, up to the bound of that way.
Disturbances == Budgeted \ {"buzzIn"}

MayCall(op, max) ==
    /\ calls[op] < max
    /\ \A o \in Disturbances \ {op} : calls[o] = 0

\* what a call of the engine leaves besides its own effect: the clock, the cards seen on the
\* board so far, and the buttons, which only SetCardAction touches
Engine ==
    /\ Clock
    /\ Persist
    /\ drawn' = drawn \cup Range(state'.activeCards)
    /\ UNCHANGED buttonStates

\* the same for newGame, which starts a game with a board of its own
Restart ==
    /\ Clock
    /\ Persist
    /\ drawn' = Range(state'.activeCards)
    /\ UNCHANGED buttonStates

Frame == Engine /\ UNCHANGED <<freedPosition, calls>>

\* bookkeeping of freedPosition
FreedBy(c) ==
    IF c \notin Registered THEN freedPosition
    ELSE IF Len(state.registeredInstances) = RequiredInstances /\ c \in DOMAIN state.instanceCardMap
    THEN state.instanceCardMap[c]
    ELSE Null

RegisterInstance ==
    /\ \E c \in Instances :
        /\ Instances \ Registered # {} => c <= NextInstance
        /\ registerInstance(c)
        /\ freedPosition' = IF c \in Registered THEN freedPosition ELSE Null
    /\ Engine
    /\ UNCHANGED calls

UnregisterInstance ==
    /\ MayCall("unregisterInstance", MaxUnregister)
    /\ \E c \in UnregisterIds : unregisterInstance(c) /\ freedPosition' = FreedBy(c)
    /\ Counted("unregisterInstance")
    /\ Engine

NewGame ==
    /\ MayCall("newGame", MaxNewGame)
    /\ \E n \in PlayerCounts, d \in Decks : newGame(n, d)
    /\ Counted("newGame")
    /\ freedPosition' = Null
    /\ Restart

UpdateTimerSettings ==
    /\ MayCall("updateTimerSettings", MaxSettings)
    /\ \E settings \in SettingsInputs : updateTimerSettings(settings)
    /\ Counted("updateTimerSettings")
    /\ Engine
    /\ UNCHANGED freedPosition

SelectPlayerForSwap ==
    /\ MayCall("position", MaxPosition)
    /\ \E p \in SwapPlayers : selectPlayerForSwap(p)
    /\ Counted("position")
    /\ Engine
    /\ UNCHANGED freedPosition

AssignPlayerPosition ==
    /\ MayCall("position", MaxPosition)
    /\ \E c \in AssignCells : assignPlayerPosition(c)
    /\ Counted("position")
    /\ Engine
    /\ UNCHANGED freedPosition

StartCountdown == startCountdown /\ Frame

\* a buzzIn that starts a round draws on the budget of rounds
BuzzIn ==
    /\ state.gamePhase = "live" => calls["buzzIn"] < MaxBuzz
    /\ \E p \in BuzzPlayers : buzzIn(p)
    /\ IF state.gamePhase = "live" THEN Counted("buzzIn") ELSE UNCHANGED calls
    /\ Engine
    /\ UNCHANGED freedPosition

HandleBuzzHoldTimeout == handleBuzzHoldTimeout /\ Frame

StartSelectionTimer == startSelectionTimer /\ Frame

SelectCard == (\E i \in CardCells : selectCard(i)) /\ Frame

HandleTimeout == handleTimeout /\ Frame

CountdownElapsed == (\E t \in BagToSet(timers) : Due(t) /\ countdownCallback(t)) /\ Frame

BuzzedElapsed == (\E t \in BagToSet(timers) : Due(t) /\ buzzedCallback(t)) /\ Frame

ReturnElapsed == (\E t \in BagToSet(timers) : Due(t) /\ returnToLiveCallback(t)) /\ Frame

\* One second passes while a callback is pending. A callback that is due runs before the
\* clock moves on. The operations of the engine never read the clock but to store it, so
\* the seconds that pass while no callback is pending are not followed here.
Tick ==
    /\ now < MaxTime
    /\ timers # EmptyBag
    /\ \A t \in BagToSet(timers) : t.due > now
    /\ now' = now + 1
    /\ ret' = "none"
    /\ io' = <<>>
    /\ UNCHANGED <<state, timers, buttonStates, drawn, freedPosition, calls, disk, writable, hand, verdict>>

Next ==
    \/ RegisterInstance
    \/ UnregisterInstance
    \/ NewGame
    \/ UpdateTimerSettings
    \/ SelectPlayerForSwap
    \/ AssignPlayerPosition
    \/ StartCountdown
    \/ BuzzIn
    \/ HandleBuzzHoldTimeout
    \/ StartSelectionTimer
    \/ SelectCard
    \/ HandleTimeout
    \/ CountdownElapsed
    \/ BuzzedElapsed
    \/ ReturnElapsed
    \/ Tick

Spec == Init /\ [][Next]_vars

---------------------------------------------------------------------------
(* The instance registry under churn: any instance may disappear, up to MaxChurn times,
   while the instances are being collected *)

\* the instances that disappear: the holders of the first, a middle and the last board
\* position, and the last instance id
ChurnIds == {1, 5, RequiredInstances, NumInstances}

UnregisterAnyInstance ==
    /\ calls["unregisterInstance"] < MaxChurn
    /\ \E c \in ChurnIds : unregisterInstance(c) /\ freedPosition' = FreedBy(c)
    /\ Counted("unregisterInstance")
    /\ Engine

RestartGame ==
    /\ calls["newGame"] < MaxNewGame
    /\ \E n \in PlayerCounts, d \in Decks : newGame(n, d)
    /\ Counted("newGame")
    /\ freedPosition' = Null
    /\ Restart

NextRegistry ==
    \/ RegisterInstance
    \/ UnregisterAnyInstance
    \/ RestartGame

SpecRegistry == Init /\ [][NextRegistry]_vars

---------------------------------------------------------------------------
(* A game played round after round without interruptions, up to MaxRounds rounds *)

\* the player who buzzes in, and the cells whose cards are selected: cells that hold no
\* player, with a valid match among them on the first and on the second board
RoundPlayers == {1}
RoundCells == {1, 2, 4, 5, 6}

BuzzInRound ==
    /\ state.gamePhase = "live" => calls["buzzIn"] < MaxRounds
    /\ \E p \in RoundPlayers : buzzIn(p)
    /\ IF state.gamePhase = "live" THEN Counted("buzzIn") ELSE UNCHANGED calls
    /\ Engine
    /\ UNCHANGED freedPosition

SelectRoundCard == (\E i \in RoundCells : selectCard(i)) /\ Frame

NextRounds ==
    \/ RegisterInstance
    \/ StartCountdown
    \/ CountdownElapsed
    \/ BuzzInRound
    \/ StartSelectionTimer
    \/ BuzzedElapsed
    \/ SelectRoundCard
    \/ ReturnElapsed
    \/ Tick

SpecRounds == Init /\ [][NextRounds]_vars

---------------------------------------------------------------------------
(* SetCardAction: the game driven by the buttons of the deck *)

\* no call of the engine
NoCall == ret' = "none" /\ Rejected

\* a variant of handlePress that selects the card of any cell during selecting
handlePress_SelectsAnyCell(actionId) ==
    /\ buttonStates' = buttonStates \cup {actionId}
    /\ LET cardIndex == getCardIndexForContext(actionId)
           playerId == getPlayerAtPosition(cardIndex)
       IN CASE state.gamePhase = "playerSelection" ->
                    IF playerId # Null THEN selectPlayerForSwap(playerId)
                    ELSE IF cardIndex = 5 \/ cardIndex = 6 THEN startCountdown
                    ELSE assignPlayerPosition(cardIndex)
            [] state.gamePhase = "live" ->
                    IF playerId # Null THEN buzzIn(playerId) ELSE NoCall
            [] state.gamePhase = "selecting" -> selectCard(cardIndex)
            [] OTHER -> NoCall

\* handlePress
handlePress(actionId) ==
    /\ buttonStates' = buttonStates \cup {actionId}
    /\ LET cardIndex == getCardIndexForContext(actionId)
           playerId == getPlayerAtPosition(cardIndex)
       IN CASE state.gamePhase = "playerSelection" ->
                    IF playerId # Null THEN selectPlayerForSwap(playerId)
                    ELSE IF cardIndex = 5 \/ cardIndex = 6 THEN startCountdown
                    ELSE assignPlayerPosition(cardIndex)
            [] state.gamePhase = "live" ->
                    IF playerId # Null THEN buzzIn(playerId) ELSE NoCall
            [] state.gamePhase = "selecting" ->
                    IF ~isPlayerPosition(cardIndex) THEN selectCard(cardIndex) ELSE NoCall
            [] OTHER -> NoCall

\* handleRelease
handleRelease(actionId) ==
    /\ buttonStates' = buttonStates \ {actionId}
    /\ LET wasPressed == actionId \in buttonStates
           cardIndex == getCardIndexForContext(actionId)
           playerId == getPlayerAtPosition(cardIndex)
       IN IF state.gamePhase = "buzzHeld" /\ wasPressed /\ playerId = state.buzzedInPlayer
          THEN startSelectionTimer
          ELSE NoCall

\* onWillDisappear
onWillDisappear(actionId) ==
    /\ unregisterInstance(actionId)
    /\ buttonStates' = buttonStates \ {actionId}

\* the setInterval callback of startTimerCheck
timerCheck ==
    IF state.gamePhase = "buzzHeld" /\ isBuzzHoldTimedOut THEN handleBuzzHoldTimeout
    ELSE IF state.gamePhase = "selecting" /\ isSelectionTimedOut THEN handleTimeout
    ELSE NoCall

\* the buttons that are pressed and released: that of player 1 (cell 0), that of the card
\* of cell 1, that of the centre cell 5, and the 13th instance; and the instances that
\* disappear
PressIds == {1, 2, 6, NumInstances}
DisappearIds == {1, NumInstances}

\* the budget that handlePress(actionId) draws on in this state: that of the call it makes,
\* that of the idle presses if it makes none, "none" for startCountdown and selectCard
PressCall(actionId) ==
    LET cardIndex == getCardIndexForContext(actionId)
        playerId == getPlayerAtPosition(cardIndex)
    IN IF state.gamePhase = "live" /\ playerId # Null THEN "buzzIn"
       ELSE IF state.gamePhase = "playerSelection"
       THEN IF playerId = Null /\ cardIndex \in {5, 6} THEN "none" ELSE "position"
       ELSE IF state.gamePhase = "selecting" /\ ~isPlayerPosition(cardIndex) THEN "none"
       ELSE "idlePress"

HandlePress ==
    \E actionId \in PressIds \cap Registered :
        /\ Cardinality(buttonStates \ {actionId}) < MaxHeld
        /\ PressCall(actionId) = "buzzIn" => calls["buzzIn"] < MaxBuzz
        /\ PressCall(actionId) = "position" => MayCall("position", MaxPosition)
        /\ PressCall(actionId) = "idlePress" => MayCall("idlePress", MaxIdlePress)
        /\ handlePress(actionId)
        /\ IF PressCall(actionId) = "none" THEN UNCHANGED calls ELSE Counted(PressCall(actionId))
        /\ Clock
        /\ Persist
        /\ drawn' = drawn \cup Range(state'.activeCards)
        /\ UNCHANGED freedPosition

HandleRelease ==
    \E actionId \in PressIds \cap Registered :
        /\ handleRelease(actionId)
        /\ Clock
        /\ Persist
        /\ drawn' = drawn \cup Range(state'.activeCards)
        /\ UNCHANGED <<freedPosition, calls>>

OnWillDisappear ==
    /\ MayCall("unregisterInstance", MaxUnregister)
    /\ \E actionId \in DisappearIds : onWillDisappear(actionId) /\ freedPosition' = FreedBy(actionId)
    /\ Counted("unregisterInstance")
    /\ Clock
    /\ Persist
    /\ drawn' = drawn \cup Range(state'.activeCards)

\* an interval of startTimerCheck runs for every registered instance
TimerCheck ==
    /\ Registered # {}
    /\ timerCheck
    /\ Frame

\* the poll would act now: it runs every 100 ms, before the next second comes
PollDue ==
    /\ Registered # {}
    /\ \/ state.gamePhase = "buzzHeld" /\ isBuzzHoldTimedOut
       \/ state.gamePhase = "selecting" /\ isSelectionTimedOut

\* one second passes while a callback is pending or the poll watches a timestamp
Elapse ==
    /\ timers # EmptyBag \/ (Registered # {} /\ state.gamePhase \in {"buzzHeld", "selecting"})
    /\ \A t \in BagToSet(timers) : t.due > now
    /\ ~PollDue
    /\ now' = now + 1
    /\ ret' = "none"
    /\ io' = <<>>
    /\ UNCHANGED <<state, timers, buttonStates, drawn, freedPosition, calls, disk, writable, hand, verdict>>

\* the clock stops at its last reading
Wait == now < MaxTime /\ Elapse

NextUI ==
    \/ RegisterInstance
    \/ OnWillDisappear
    \/ HandlePress
    \/ HandleRelease
    \/ TimerCheck
    \/ CountdownElapsed
    \/ BuzzedElapsed
    \/ ReturnElapsed
    \/ Wait

SpecUI == Init /\ [][NextUI]_vars

---------------------------------------------------------------------------
(* The placing of the players: up to MaxMoves calls of selectPlayerForSwap and
   assignPlayerPosition, made in any phase from setup to countdown *)

\* the players selected, the four ids of playerPositions, and the cells assigned, the
\* twelve cells of the board
MovePlayers == 1..4
MoveCells == Positions

SwapPlayer ==
    /\ calls["position"] < MaxMoves
    /\ \E p \in MovePlayers : selectPlayerForSwap(p)
    /\ Counted("position")
    /\ Engine
    /\ UNCHANGED freedPosition

AssignCell ==
    /\ calls["position"] < MaxMoves
    /\ \E c \in MoveCells : assignPlayerPosition(c)
    /\ Counted("position")
    /\ Engine
    /\ UNCHANGED freedPosition

NextPositions ==
    \/ RegisterInstance
    \/ RestartGame
    \/ SwapPlayer
    \/ AssignCell
    \/ StartCountdown

SpecPositions == Init /\ [][NextPositions]_vars

---------------------------------------------------------------------------
(* A game without interruptions, the engine called directly while the pollers of
   SetCardAction run: every call is made at any moment, and time passes as in SpecUI *)

\* the cells whose cards are selected: the three of a valid match
PollCells == {1, 4, 7}

SelectPollCard == (\E i \in PollCells : selectCard(i)) /\ Frame

NextPoll ==
    \/ RegisterInstance
    \/ StartCountdown
    \/ BuzzIn
    \/ StartSelectionTimer
    \/ SelectPollCard
    \/ HandleTimeout
    \/ TimerCheck
    \/ CountdownElapsed
    \/ BuzzedElapsed
    \/ ReturnElapsed
    \/ Wait

SpecPoll == Init /\ [][NextPoll]_vars

---------------------------------------------------------------------------
(* The same game, interrupted at most once during a round, with every deferred callback
   fired once it is due, the pollers running, and time passing: what the players do is
   left to them *)

UnregisterInRound ==
    /\ state.gamePhase \in {"buzzHeld", "buzzed", "selecting", "validating", "cooldown"}
    /\ UnregisterInstance

WaitLive == now < MaxLiveTime /\ Elapse

NextLive ==
    \/ RegisterInstance
    \/ UnregisterInRound
    \/ StartCountdown
    \/ BuzzIn
    \/ StartSelectionTimer
    \/ SelectPollCard
    \/ HandleTimeout
    \/ TimerCheck
    \/ CountdownElapsed
    \/ BuzzedElapsed
    \/ ReturnElapsed
    \/ WaitLive

Fairness ==
    /\ WF_vars(CountdownElapsed)
    /\ WF_vars(BuzzedElapsed)
    /\ WF_vars(ReturnElapsed)
    /\ WF_vars(TimerCheck)
    /\ WF_vars(WaitLive)

SpecLive == Init /\ [][NextLive]_vars /\ Fairness

---------------------------------------------------------------------------
(* A round played while the disk stops and starts accepting writes, up to MaxFaults
   times *)

\* fs.writeFileSync starts to throw, or succeeds again
DiskFault ==
    /\ calls["diskFault"] < MaxFaults
    /\ writable' = ~writable
    /\ Counted("diskFault")
    /\ ret' = "none"
    /\ io' = <<>>
    /\ UNCHANGED <<state, timers, now, buttonStates, drawn, freedPosition, disk, hand, verdict>>

NextStore ==
    \/ RegisterInstance
    \/ StartCountdown
    \/ BuzzIn
    \/ StartSelectionTimer
    \/ SelectPollCard
    \/ HandleTimeout
    \/ CountdownElapsed
    \/ BuzzedElapsed
    \/ ReturnElapsed
    \/ Tick
    \/ DiskFault

SpecStore == Init /\ [][NextStore]_vars

---------------------------------------------------------------------------
(* ThemeSystem on its own: three cards of the generated deck are handed to isValidSet *)

\* the cards handed over, by their place in the deck: the first three and the last three
\* cards, and cards that differ from them in one, two, three and four properties
HandPlaces == {1, 2, 3, 4, 5, 10, 14, 28, 41, 79, 80, 81}

DrawHand ==
    /\ hand = <<>>
    /\ \E i, j, k \in HandPlaces : hand' = <<generateDeck[i], generateDeck[j], generateDeck[k]>>
    /\ verdict' = "none"
    /\ UNCHANGED <<state, timers, now, buttonStates, drawn, ret, io, freedPosition, calls,
                   disk, writable>>

Validate ==
    /\ hand # <<>>
    /\ verdict = "none"
    /\ verdict' = IF isValidSet(hand[1], hand[2], hand[3]) THEN "true" ELSE "false"
    /\ UNCHANGED <<state, timers, now, buttonStates, drawn, ret, io, freedPosition, calls,
                   disk, writable, hand>>

NextTheme ==
    \/ DrawHand
    \/ Validate

SpecTheme == Init /\ [][NextTheme]_vars

---------------------------------------------------------------------------
(* Properties *)

RoundPhases == {"buzzHeld", "buzzed", "selecting", "validating", "cooldown"}

\* a step that is a buzzIn call
BuzzInStep == ret' # "none"

\* a step in which the returnToLive callback of a pending timer runs
ReturnToLiveStep ==
    \E t \in BagToSet(timers) : t.kind = "returnToLive" /\ timers' = timers (-) SetToBag({t})

\* a step in which instance c registers, and one in which it unregisters
Registers(c) == c \notin Registered /\ c \in Registered'

Unregisters(c) == c \in Registered /\ c \notin Registered'

FreePositions == { i \in Positions : \A c \in DOMAIN state.instanceCardMap : state.instanceCardMap[c] # i }

C2_RejectedBuzzInChangesNothing ==
    [][ (BuzzInStep /\ state.gamePhase # "live")
            => (ret' = "false" /\ state' = state /\ io' = <<>> /\ timers' = timers) ]_vars

\* buzzIn was refused during the selection of a set
C2_Witness ==
    /\ ret = "false"
    /\ io = <<>>
    /\ state.gamePhase = "selecting"
    /\ Len(state.selectedCards) = 2

\* C3: buzzedInPlayer is non-null only in buzzHeld, buzzed, selecting, validating, cooldown.
C3_BuzzedInPlayerOnlyInRound ==
    state.buzzedInPlayer # Null => state.gamePhase \in RoundPhases

\* C4: while fewer than 12 instances are registered, phase is setup.
C4_BelowTwelveIsSetup ==
    Len(state.registeredInstances) < RequiredInstances => state.gamePhase = "setup"

\* C5: the returnToLive callback changes nothing when it fires in a phase other than
\* validating and cooldown.
C5_ReturnToLiveRechecksPhase ==
    [][ (ReturnToLiveStep /\ state.gamePhase \notin {"validating", "cooldown"})
            => state' = state ]_vars

\* C6: the registration of a new instance moves phase from setup to playerSelection when
\* it is the 12th, and changes no phase otherwise (the 11th, the 13th, or outside setup).
C6_TwelfthRegistrationStartsPlayerSelection ==
    [][ (\E c \in Instances : Registers(c)) =>
            state'.gamePhase =
                IF state.gamePhase = "setup" /\ Len(state'.registeredInstances) = RequiredInstances
                THEN "playerSelection"
                ELSE state.gamePhase ]_vars

\* a 13th instance has registered during player selection
C6_Witness ==
    /\ Len(state.registeredInstances) = RequiredInstances + 1
    /\ state.gamePhase = "playerSelection"
    /\ io = SaveAndNotify
    /\ calls["unregisterInstance"] = 0

\* C7: unregisterInstance of one of exactly 12 registered instances sets phase to setup and
\* removes its position from instanceCardMap, and the next instance that registers
\* receives that freed position.
C7_FreedPositionGoesToNextRegistrant ==
    [][ \A c \in Instances :
          /\ (Unregisters(c) /\ Len(state.registeredInstances) = RequiredInstances)
                => /\ state'.gamePhase = "setup"
                   /\ c \notin DOMAIN state'.instanceCardMap
          /\ (Registers(c) /\ freedPosition # Null)
                => /\ c \in DOMAIN state'.instanceCardMap
                   /\ state'.instanceCardMap[c] = freedPosition ]_vars

\* C8: registerInstance gives a new instance the lowest board position that no instance
\* holds, when there is one, and the position of an instance that stays registered does
\* not change.
C8_LowestFreePositionAndStable ==
    [][ \A c \in Instances :
          /\ (Registers(c) /\ FreePositions # {})
                => /\ c \in DOMAIN state'.instanceCardMap
                   /\ state'.instanceCardMap[c] \in FreePositions
                   /\ \A j \in FreePositions : state'.instanceCardMap[c] <= j
          /\ (Registers(c) /\ FreePositions = {}) => c \notin DOMAIN state'.instanceCardMap
          /\ (c \in Registered /\ c \in Registered' /\ c \in DOMAIN state.instanceCardMap)
                => /\ c \in DOMAIN state'.instanceCardMap
                   /\ state'.instanceCardMap[c] = state.instanceCardMap[c] ]_vars

\* instance 1 came back while the positions of instances 1 and 5 were free, and holds 0
C8_Witness ==
    /\ Len(state.registeredInstances) >= RequiredInstances - 1
    /\ state.registeredInstances[Len(state.registeredInstances)] = 1
    /\ 5 \notin Registered
    /\ 1 \in DOMAIN state.instanceCardMap
    /\ state.instanceCardMap[1] = 0
    /\ 4 \in FreePositions

\* C9: instanceCardMap is injective and its values are board positions 0..11.
C9_InstanceCardMapInjective ==
    /\ \A c \in DOMAIN state.instanceCardMap : state.instanceCardMap[c] \in Positions
    /\ \A c, d \in DOMAIN state.instanceCardMap :
            state.instanceCardMap[c] = state.instanceCardMap[d] => c = d

\* 13 instances are registered again after two of them had disappeared
C9_Witness ==
    /\ Len(state.registeredInstances) = RequiredInstances + 1
    /\ calls["unregisterInstance"] = MaxChurn
    /\ Cardinality(DOMAIN state.instanceCardMap) = BoardSize

TotalSuccessful ==
    LET ps == state.players
        sum[i \in 0..Len(ps)] == IF i = 0 THEN 0 ELSE sum[i - 1] + ps[i].successfulSets
    IN sum[Len(ps)]

\* C11: every card of activeCards is a card of deck, and no card id occurs twice in
\* activeCards.
C11_ActiveCardsDistinctFromDeck ==
    /\ Range(state.activeCards) \subseteq Range(state.deck)
    /\ \A i, j \in DOMAIN state.activeCards :
            state.activeCards[i] = state.activeCards[j] => i = j

\* the game is live again with a board on which a valid match was replaced
C11_Witness ==
    /\ state.gamePhase = "live"
    /\ TotalSuccessful = 1
    /\ state.activeCards # Slice(state.deck, BoardSize)
    /\ Len(state.activeCards) = BoardSize

\* C12: within one game a card that a valid match removed from activeCards never comes back:
\* the cards that a step puts on the board have never been on it, and after k valid
\* matches min(81, 12 + 3k) distinct cards have been on the board.
C12_ConsumedCardsNeverReturn ==
    [][ calls'["newGame"] = calls["newGame"] =>
          /\ (Range(state'.activeCards) \ Range(state.activeCards)) \cap drawn = {}
          /\ Cardinality(drawn') = Min(DeckSize, BoardSize + DrawCount * TotalSuccessful')
      ]_vars

\* a step in which selectCard brings the selection to three cards and evaluates it
EvaluationStep == state.gamePhase = "selecting" /\ state'.gamePhase = "validating"

\* the three cards under evaluation form a valid match
ValidTriple(sel) == isValidSet(CardOf(sel[1]), CardOf(sel[2]), CardOf(sel[3]))

\* C13: every set evaluation is attributed to buzzedInPlayer, or to player 1 when there is
\* none: that player exists, exactly one of its two counters goes up, by exactly 1, and
\* the counters of the other players do not change.
C13_EvaluationAttributed ==
    [][ EvaluationStep =>
          LET i == FindPlayer(state.players, AttributedPlayer(state))
              before == state.players
              after == state'.players
          IN /\ i # 0
             /\ Len(after) = Len(before)
             /\ \/ /\ after[i].successfulSets = before[i].successfulSets + 1
                   /\ after[i].unsuccessfulSets = before[i].unsuccessfulSets
                \/ /\ after[i].successfulSets = before[i].successfulSets
                   /\ after[i].unsuccessfulSets = before[i].unsuccessfulSets + 1
             /\ \A j \in DOMAIN before : j # i => after[j] = before[j]
      ]_vars

\* the player an evaluation is attributed to, as an index of players (0: no such player)
Attributed == FindPlayer(state.players, AttributedPlayer(state))

\* C14: when the three selected cards form a valid match and the attributed player exists,
\* that player's successfulSets goes up by exactly 1 and its unsuccessfulSets stays;
\* activeCards loses exactly the three selected cards, gains exactly three cards that
\* were not on the board, and keeps the nine others.
C14_ValidMatchEffect ==
    [][ (EvaluationStep /\ Attributed # 0 /\ ValidTriple(state'.selectedCards)) =>
          LET i == Attributed
              old == Range(state.activeCards)
              new == Range(state'.activeCards)
              sel == Range(state'.selectedCards)
          IN /\ state'.players[i].successfulSets = state.players[i].successfulSets + 1
             /\ state'.players[i].unsuccessfulSets = state.players[i].unsuccessfulSets
             /\ Cardinality(sel) = 3
             /\ old \ new = sel
             /\ Cardinality(new \ old) = 3
             /\ Cardinality(old \cap new) = BoardSize - 3
             /\ Len(state'.activeCards) = BoardSize
      ]_vars

\* player 2 of a two-player game has made a valid match
C14_Witness ==
    /\ state.gamePhase = "validating"
    /\ state.buzzedInPlayer = 2
    /\ Len(state.players) = 2
    /\ state.players[2].successfulSets = 1
    /\ state.players[2].unsuccessfulSets = 0
    /\ Range(state.selectedCards) \cap Range(state.activeCards) = {}

\* C15: when the three selected cards do not form a valid match and the attributed player
\* exists, that player's unsuccessfulSets goes up by exactly 1, and activeCards, deck and
\* every successfulSets counter stay as they were.
C15_InvalidMatchEffect ==
    [][ (EvaluationStep /\ Attributed # 0 /\ ~ValidTriple(state'.selectedCards)) =>
          LET i == Attributed
          IN /\ state'.players[i].unsuccessfulSets = state.players[i].unsuccessfulSets + 1
             /\ state'.activeCards = state.activeCards
             /\ state'.deck = state.deck
             /\ Len(state'.players) = Len(state.players)
             /\ \A j \in DOMAIN state.players :
                    state'.players[j].successfulSets = state.players[j].successfulSets
      ]_vars

\* an invalid triple has been evaluated against player 1
C15_Witness ==
    /\ state.gamePhase = "validating"
    /\ Len(state.selectedCards) = 3
    /\ ~ValidTriple(state.selectedCards)
    /\ state.buzzedInPlayer = 1
    /\ state.players[1].unsuccessfulSets = 1
    /\ state.players[1].successfulSets = 0
    /\ state.activeCards = Slice(state.deck, BoardSize)

C17_LiveHasNoSelection ==
    state.gamePhase = "live" => state.selectedCards = <<>>

\* s without every occurrence of x
Without(s, x) == LET other(y) == y # x IN SelectSeq(s, other)

OnPlayerCell(actionId) ==
    /\ actionId \in DOMAIN state.instanceCardMap
    /\ isPlayerPosition(state.instanceCardMap[actionId])

\* the card ids that are in one of two selections and not in the other
Toggled(sel1, sel2) == (Range(sel1) \ Range(sel2)) \cup (Range(sel2) \ Range(sel1))

OnBuzzerCell(actionId) ==
    /\ actionId \in DOMAIN state.instanceCardMap
    /\ state.buzzedInPlayer \in DOMAIN state.playerPositions
    /\ state.instanceCardMap[actionId] = state.playerPositions[state.buzzedInPlayer]

\* C20: a release moves the phase from buzzHeld to buzzed and clears buzzPressTime when the
\* released button had been pressed and sits at the board position of buzzedInPlayer;
\* the release of any other button, or in any other phase, leaves the game state unchanged.
C20_ReleaseOfTheBuzzer ==
    [][ \A actionId \in PressIds :
          (actionId \in Registered /\ handleRelease(actionId)) =>
            IF state.gamePhase = "buzzHeld" /\ actionId \in buttonStates /\ OnBuzzerCell(actionId)
            THEN /\ state'.gamePhase = "buzzed"
                 /\ state'.buzzPressTime = Null
            ELSE state' = state
      ]_vars

\* the players after the unsuccessfulSets of the player with this id went up by one, and
\* of no one else; the empty sequence stands for "no such player"
Penalised(players, playerId) ==
    IF \E i \in DOMAIN players : players[i].id = playerId
    THEN LET i == CHOOSE j \in DOMAIN players : players[j].id = playerId
         IN [players EXCEPT ![i].unsuccessfulSets = players[i].unsuccessfulSets + 1]
    ELSE <<>>

\* C21: handleBuzzHoldTimeout called in phase buzzHeld adds exactly 1 to the unsuccessfulSets
\* of the buzzed-in player, sets buzzedInPlayer and buzzPressTime to null and the phase to
\* live; called in any other phase it changes nothing.
C21_HoldTimeoutPenalisesOnce ==
    [][ handleBuzzHoldTimeout =>
            IF state.gamePhase = "buzzHeld"
            THEN /\ state'.players = Penalised(state.players, state.buzzedInPlayer)
                 /\ state'.buzzedInPlayer = Null
                 /\ state'.buzzPressTime = Null
                 /\ state'.gamePhase = "live"
            ELSE state' = state
      ]_vars

\* a step in which the callback of a pending timer of this kind runs
CallbackStep(kind) ==
    \E t \in BagToSet(timers) : t.kind = kind /\ t.due <= now /\ timers' = timers (-) SetToBag({t})

\* C22: the callback scheduled when the buzzer is released changes the state only if the
\* phase is buzzed when it fires, and then sets the phase to selecting and selectionTimer to
\* the time of firing; in any other phase it changes nothing; and a release schedules
\* exactly one such callback, a startSelectionTimer call outside buzzHeld none.
C22_BuzzedCallbackRechecksPhase ==
    [][ /\ CallbackStep("buzzed") =>
              IF state.gamePhase = "buzzed"
              THEN state' = [state EXCEPT !.gamePhase = "selecting", !.selectionTimer = now]
              ELSE state' = state
        /\ startSelectionTimer =>
              IF state.gamePhase = "buzzHeld"
              THEN timers' = timers (+) SetToBag({[kind |-> "buzzed", due |-> now + BuzzedDelay]})
              ELSE timers' = timers
      ]_vars

\* the callback of a release has fired after an unregisterInstance had reset the phase to
\* setup during buzzed: the round is where the unregisterInstance left it
C22_Witness ==
    /\ state.gamePhase = "setup"
    /\ state.buzzedInPlayer # Null
    /\ state.buzzPressTime = Null
    /\ state.selectionTimer = Null
    /\ timers = EmptyBag
    /\ io = <<>>

\* C23: once the selection window has elapsed, the poll that finds the phase selecting moves
\* it to cooldown and adds exactly 1 to the unsuccessfulSets of the buzzed-in player; and a
\* poll or a handleTimeout call made once the phase has left selecting and the buzzer is
\* not held changes nothing.
C23_SelectionTimeoutOnce ==
    [][ /\ (timerCheck /\ state.gamePhase = "selecting" /\ isSelectionTimedOut) =>
              /\ state'.gamePhase = "cooldown"
              /\ state'.players = Penalised(state.players, state.buzzedInPlayer)
        /\ ((timerCheck \/ handleTimeout) /\ state.gamePhase \notin {"selecting", "buzzHeld"}) =>
              state' = state
        /\ (handleTimeout /\ state.gamePhase # "selecting") => state' = state
      ]_vars

\* C24: during a selection, isSelectionTimedOut reports true as soon as the time elapsed
\* since selectionTimer is greater than or equal to selectionTimeout, equality included.
C24_TimedOutAtEquality ==
    (/\ state.gamePhase = "selecting"
     /\ state.selectionTimer # Null
     /\ now - state.selectionTimer >= state.timerSettings.selectionTimeout)
        => isSelectionTimedOut

\* C25: the phase changes from countdown to live only when at least countdownDuration has
\* elapsed since the startCountdown call that entered this countdown (the call stored its
\* time in selectionTimer).
C25_LiveAfterFullCountdown ==
    [][ (state.gamePhase = "countdown" /\ state'.gamePhase = "live") =>
            /\ state.selectionTimer # Null
            /\ now - state.selectionTimer >= state.timerSettings.countdownDuration
      ]_vars

\* C26: with the deferred callbacks fired and the pollers running, a round that is in
\* phase buzzHeld, buzzed, selecting, validating or cooldown eventually reaches live, or
\* setup after an unregisterInstance, whatever the players do.
C26_RoundEventuallyEnds ==
    (state.gamePhase \in RoundPhases) ~> (state.gamePhase \in {"live", "setup"})

\* a round has ended by a timeout: the game is live again and the player who buzzed in
\* carries the penalty
C26_Witness ==
    /\ state.gamePhase = "live"
    /\ calls["buzzIn"] = 1
    /\ state.buzzedInPlayer = Null
    /\ state.selectedCards = <<>>
    /\ state.players[1].unsuccessfulSets = 1
    /\ timers = EmptyBag

\* C27: in playerSelection, selectPlayerForSwap(p) marks p as pending when no player is
\* pending, clears the mark when p is pending, and when another player q is pending
\* exchanges the positions of p and q, clears the mark and leaves the positions of the
\* other players as they are; in any other phase it changes nothing.
C27_SelectPlayerForSwap ==
    [][ \A p \in MovePlayers :
          selectPlayerForSwap(p) =>
            LET q == state.selectedPlayerForSwap
                pos == state.playerPositions
            IN IF state.gamePhase # "playerSelection" THEN state' = state
               ELSE IF q = Null THEN state' = [state EXCEPT !.selectedPlayerForSwap = p]
               ELSE IF q = p THEN state' = [state EXCEPT !.selectedPlayerForSwap = Null]
               ELSE /\ DOMAIN state'.playerPositions = DOMAIN pos
                    /\ state'.playerPositions[p] = pos[q]
                    /\ state'.playerPositions[q] = pos[p]
                    /\ \A r \in DOMAIN pos \ {p, q} : state'.playerPositions[r] = pos[r]
                    /\ state' = [state EXCEPT !.playerPositions = state'.playerPositions,
                                              !.selectedPlayerForSwap = Null]
      ]_vars

\* players 1 and 2 have exchanged their positions
C27_Witness ==
    /\ state.gamePhase = "playerSelection"
    /\ state.playerPositions = (1 :> 3) @@ (2 :> 0) @@ (3 :> 8) @@ (4 :> 11)
    /\ state.selectedPlayerForSwap = Null
    /\ calls["position"] = 2
    /\ io = SaveAndNotify

\* C28: in playerSelection with a player p pending, assignPlayerPosition(c) puts p at cell
\* c, moves the player who occupied c to the former position of p, leaves the others
\* where they are and clears the pending mark; with no player pending, or in any other
\* phase, it changes nothing.
C28_AssignPlayerPosition ==
    [][ \A c \in MoveCells :
          assignPlayerPosition(c) =>
            LET p == state.selectedPlayerForSwap
                pos == state.playerPositions
            IN IF state.gamePhase # "playerSelection" \/ p = Null THEN state' = state
               ELSE /\ DOMAIN state'.playerPositions = DOMAIN pos
                    /\ state'.playerPositions[p] = c
                    /\ \A r \in DOMAIN pos \ {p} :
                          state'.playerPositions[r] = IF pos[r] = c THEN pos[p] ELSE pos[r]
                    /\ state' = [state EXCEPT !.playerPositions = state'.playerPositions,
                                              !.selectedPlayerForSwap = Null]
      ]_vars

\* player 1 has been put at the cell of player 3, who has moved to the cell player 1 left
C28_Witness ==
    /\ state.gamePhase = "playerSelection"
    /\ state.playerPositions = (1 :> 8) @@ (2 :> 3) @@ (3 :> 0) @@ (4 :> 11)
    /\ state.selectedPlayerForSwap = Null
    /\ calls["position"] = 2
    /\ io = SaveAndNotify

\* C29: playerPositions is a bijection from the players of the game onto playerCount
\* board positions: one entry for each of the players 1..playerCount and no other, no two
\* of them equal, each in 0..11.
C29_PositionsOfThePlayers ==
    /\ DOMAIN state.playerPositions = 1..state.playerCount
    /\ \A p \in DOMAIN state.playerPositions : state.playerPositions[p] \in Positions
    /\ \A p, q \in DOMAIN state.playerPositions :
          p # q => state.playerPositions[p] # state.playerPositions[q]

\* C30: in a step that is not a newGame call the players stay the same and neither
\* successfulSets nor unsuccessfulSets of any player goes down.
C30_ScoresNeverDecrease ==
    [][ calls'["newGame"] = calls["newGame"] =>
          /\ Len(state'.players) = Len(state.players)
          /\ \A i \in DOMAIN state.players :
                /\ state'.players[i].id = state.players[i].id
                /\ state'.players[i].successfulSets >= state.players[i].successfulSets
                /\ state'.players[i].unsuccessfulSets >= state.players[i].unsuccessfulSets
      ]_vars

\* an unregisterInstance has reset the phase to setup after a player was penalised: the
\* penalty is still there
C30_Witness ==
    /\ state.gamePhase = "setup"
    /\ calls["unregisterInstance"] = 1
    /\ Len(state.registeredInstances) < RequiredInstances
    /\ \E i \in DOMAIN state.players : state.players[i].unsuccessfulSets = 1

\* the calls made by a step are saveState, notifyWatchers, once or several times over, and
\* nothing else
PersistsThenNotifies(made) ==
    /\ made # <<>>
    /\ Len(made) % 2 = 0
    /\ \A i \in DOMAIN made : made[i] = IF i % 2 = 1 THEN "save" ELSE "notify"

\* C31: every step that changes GameState, the deferred callbacks included, calls saveState
\* and then notifyWatchers before it ends, and makes no notification that a saveState does
\* not precede; when the writes succeed the snapshot on disk after the step is the
\* in-memory state.
C31_PersistThenNotify ==
    [][ /\ state' # state => PersistsThenNotifies(io')
        /\ io' # <<>> => PersistsThenNotifies(io')
        /\ (state' # state /\ writable) => disk' = <<state'>>
      ]_vars

\* the third card has been selected: validateSet and then selectCard have each persisted
\* and notified, and the file holds the state after the evaluation
C31_Witness ==
    /\ state.gamePhase = "validating"
    /\ io = SaveAndNotify \o SaveAndNotify
    /\ disk = <<state>>
    /\ Len(state.selectedCards) = 3

\* C32: when the write of the snapshot fails, the operation still runs to its end: the
\* in-memory state has the change it made, and notifyWatchers is called after the failed
\* saveState.
C32_FailedWriteIsIgnored ==
    [][ (~writable /\ "save" \in Range(io')) =>
            /\ PersistsThenNotifies(io')
            /\ state' # state
      ]_vars

\* the file still holds the snapshot of the player selection, while the game went on in
\* memory through the countdown to a buzz-in that was accepted and notified
C32_Witness ==
    /\ ~writable
    /\ disk # <<>>
    /\ disk[1].gamePhase = "playerSelection"
    /\ state.gamePhase = "buzzHeld"
    /\ ret = "true"
    /\ io = SaveAndNotify

\* C33: after a newGame call, in whatever state it was made, the phase is setup,
\* registeredInstances and instanceCardMap are empty, the players are those with ids
\* 1..playerCount, both counters 0, selectedCards is empty, buzzedInPlayer, buzzPressTime
\* and selectionTimer are null, and activeCards is the first 12 cards of the deck.
C33_NewGameStartsAfresh ==
    [][ calls'["newGame"] = calls["newGame"] + 1 =>
          /\ state'.gamePhase = "setup"
          /\ state'.registeredInstances = <<>>
          /\ DOMAIN state'.instanceCardMap = {}
          /\ state'.playerCount \in PlayerCounts
          /\ Len(state'.players) = state'.playerCount
          /\ \A i \in 1..state'.playerCount :
                /\ state'.players[i].id = i
                /\ state'.players[i].successfulSets = 0
                /\ state'.players[i].unsuccessfulSets = 0
          /\ state'.selectedCards = <<>>
          /\ state'.buzzedInPlayer = Null
          /\ state'.buzzPressTime = Null
          /\ state'.selectionTimer = Null
          /\ Len(state'.deck) = DeckSize
          /\ state'.activeCards = SubSeq(state'.deck, 1, BoardSize)
      ]_vars

\* newGame has been called during a round: the callback of the round is still pending
C33_Witness ==
    /\ calls["newGame"] = 1
    /\ io = SaveAndNotify
    /\ state.gamePhase = "setup"
    /\ state.registeredInstances = <<>>
    /\ Len(state.players) = 2
    /\ \E t \in BagToSet(timers) : t.kind = "returnToLive"

\* C34: the deck that the cards of a hand are taken from, as generateDeck returns it, has
\* exactly 81 cards, their ids are pairwise distinct and are the numbers 0..80, and every
\* 4-tuple over {0, 1, 2} is the properties of exactly one card.
C34_DeckIsTheFullProduct ==
    hand # <<>> =>
        /\ Len(generateDeck) = DeckSize
        /\ { generateDeck[i].id : i \in DOMAIN generateDeck } = 0..(DeckSize - 1)
        /\ \A i, j \in DOMAIN generateDeck : i # j => generateDeck[i].id # generateDeck[j].id
        /\ \A t \in [1..4 -> 0..2] :
              Cardinality({ i \in DOMAIN generateDeck : generateDeck[i].properties = t }) = 1

\* the hand holds the first and the last card of the deck, and the one in the middle
C34_Witness ==
    /\ hand # <<>>
    /\ hand[1] = [id |-> 0, properties |-> <<0, 0, 0, 0>>]
    /\ hand[2] = [id |-> 40, properties |-> <<1, 1, 1, 1>>]
    /\ hand[3] = [id |-> 80, properties |-> <<2, 2, 2, 2>>]
    /\ verdict = "none"

\* the values of a hand at one attribute slot
SlotValues(h, slot) == { h[n].properties[slot] : n \in 1..3 }

\* C35: isValidSet returns true if and only if at each of the 4 attribute slots the three
\* values are all equal or pairwise distinct: a hand with exactly two equal values at some
\* slot is rejected.
C35_ValidIffNoSlotHasTwoValues ==
    verdict # "none" =>
        (verdict = "true" <=> \A slot \in 1..4 : Cardinality(SlotValues(hand, slot)) # 2)

\* a hand that differs at the last slot only, with two equal values there, was rejected
C35_Witness ==
    /\ verdict = "false"
    /\ \A slot \in 1..3 : Cardinality(SlotValues(hand, slot)) = 1
    /\ Cardinality(SlotValues(hand, 4)) = 2

\* the six orderings of three arguments
Orderings == { <<1, 2, 3>>, <<1, 3, 2>>, <<2, 1, 3>>, <<2, 3, 1>>, <<3, 1, 2>>, <<3, 2, 1>> }

\* C36: isValidSet gives the same result for all six orderings of the three cards.
C36_ValidSetIsSymmetric ==
    verdict # "none" =>
        \A o \in Orderings :
            isValidSet(hand[o[1]], hand[o[2]], hand[o[3]]) = (verdict = "true")

\* three different cards that form a set were accepted in an order that is not that of
\* the deck
C36_Witness ==
    /\ verdict = "true"
    /\ hand[1].id > hand[2].id
    /\ hand[3].id > hand[1].id

\* C37: whenever the phase is setup, fewer than 12 instances are registered.
C37_SetupMeansIncomplete ==
    state.gamePhase = "setup" => Len(state.registeredInstances) < RequiredInstances

\* the twelfth instance has gone and the game is back in setup, its position free
C37_Witness ==
    /\ state.gamePhase = "setup"
    /\ Len(state.registeredInstances) = RequiredInstances - 1
    /\ freedPosition # Null
    /\ io = SaveAndNotify
    /\ timers = EmptyBag

\* C38: whenever at most 12 instances are registered, every registered instance has a
\* board position in instanceCardMap, no two of them the same; and every key of
\* instanceCardMap is a registered instance.
C38_RegisteredInstancesHavePositions ==
    /\ DOMAIN state.instanceCardMap \subseteq Registered
    /\ Len(state.registeredInstances) <= RequiredInstances =>
          /\ Registered \subseteq DOMAIN state.instanceCardMap
          /\ \A c, d \in DOMAIN state.instanceCardMap :
                c # d => state.instanceCardMap[c] # state.instanceCardMap[d]

\* C39: after any sequence of selectPlayerForSwap and assignPlayerPosition calls no two
\* players share a board position, and the player ids in playerPositions are those it
\* started with.
C39_PlayersKeepDistinctPositions ==
    /\ DOMAIN state.playerPositions = DOMAIN DefaultPlayerPositions
    /\ \A p, q \in DOMAIN state.playerPositions :
          p # q => state.playerPositions[p] # state.playerPositions[q]

\* player 4 was put at the cell of player 1, who moved to the corner player 4 left, and
\* player 4 is pending again
C39_Witness ==
    /\ state.gamePhase = "playerSelection"
    /\ state.playerPositions = (1 :> 11) @@ (2 :> 3) @@ (3 :> 8) @@ (4 :> 0)
    /\ state.selectedPlayerForSwap = 4
    /\ calls["position"] = 3
    /\ io = SaveAndNotify

=============================================================================
